---- MODULE Spec2Model ----
(***************************************************************************)
(* GeoCrypt QR: the location-verification workflow.                        *)
(*                                                                         *)
(* The module models the QrScanner component (scan -> decrypt -> validate  *)
(* -> distance -> result), the LocationVerifier view, the AES envelope of  *)
(* lib/crypto.ts and the payload built by the generator form.              *)
(*                                                                         *)
(* React state is modelled as committed state: the setState calls of one   *)
(* synchronous run of a handler are batched and the last write wins.  A    *)
(* handler sees the state of the render that created it, so a value a      *)
(* callback closes over is kept in a variable of its own.  Once the        *)
(* component is unmounted its state is gone (scannerState "unmounted") and *)
(* the setState calls of the calls still in flight do nothing.             *)
(*                                                                         *)
(* A nullable value is <<>> (null) or <<v>>.                               *)
(* Coordinates are integers in units of the arc that subtends one metre    *)
(* on the earth's surface, distances are metres.                           *)
(***************************************************************************)
EXTENDS Integers, Sequences, FiniteSets, TLC

\* ------------------------------------------------------------------ bounds
\* number of distinct position fixes the geolocation service can report
NumDeviceFixes == 2
\* number of distinct non-zero latitudes a QR payload can carry
NumTargetLats == 1

\* number of steps of the grid of coordinates the haversine distance is
\* measured on
HvGrid == 3

\* number of processDecodedText calls of the scan-and-append scanner that
\* can wait for the position at once
MaxAppCalls == 2

\* number of distinct texts the user types into the geo-locked generator
NumGenTexts == 6

\* the chat: number of rooms, of sockets the hook creates, of messages the
\* user sends, and of times the clock moves on
NumRooms == 2
MaxSockets == 3
MaxSends == 2
MaxTime == 2

NULL == <<>>
Some(x) == <<x>>

\* ---------------------------------------------------------- JSON text
\* A text is a sequence of tokens; a token is [k, s, n] with k the kind:
\* "p" punctuation, "str" a quoted string, "num" a number, "lit" a literal
\* (null, true, false), "raw" characters that are no JSON token.
Punct(c) == [k |-> "p", s |-> c, n |-> 0]
Str(x) == [k |-> "str", s |-> x, n |-> 0]
Num(x) == [k |-> "num", s |-> "", n |-> x]
Lit(x) == [k |-> "lit", s |-> x, n |-> 0]
Raw(x) == [k |-> "raw", s |-> x, n |-> 0]
\* an object that is the value of a member, held as one token
Obj(x) == [k |-> "obj", s |-> "", n |-> 0, o |-> x]

Field(key, val) == [key |-> key, val |-> val]

\* JSON.stringify of an object whose values are strings and numbers: the
\* members in insertion order, separated by commas, between braces.
RECURSIVE Members(_)
Members(fields) ==
  IF fields = <<>> THEN <<>>
  ELSE LET f == Head(fields)
           m == <<Str(f.key), Punct(":"), f.val>>
       IN IF Len(fields) = 1 THEN m
          ELSE m \o <<Punct(",")>> \o Members(Tail(fields))

JSONstringify(fields) == <<Punct("{")>> \o Members(fields) \o <<Punct("}")>>

IsScalar(t) == t.k \in {"str", "num", "lit"}

\* the members between the braces: key : scalar (, key : scalar)*
RECURSIVE ParseMembers(_, _)
ParseMembers(toks, acc) ==
  IF Len(toks) < 3 THEN [ok |-> FALSE, fields |-> <<>>]
  ELSE IF ~(toks[1].k = "str" /\ toks[2] = Punct(":") /\ (IsScalar(toks[3]) \/ toks[3].k = "obj"))
       THEN [ok |-> FALSE, fields |-> <<>>]
  ELSE LET acc2 == Append(acc, Field(toks[1].s, toks[3]))
           rest == SubSeq(toks, 4, Len(toks))
       IN IF rest = <<>> THEN [ok |-> TRUE, fields |-> acc2]
          ELSE IF Head(rest) = Punct(",") THEN ParseMembers(Tail(rest), acc2)
          ELSE [ok |-> FALSE, fields |-> <<>>]

\* JSON.parse: ok = FALSE is a SyntaxError; otherwise the value, of kind
\* "null", "scalar" (number, string, boolean), "arr" or "obj".
JSONparse(text) ==
  LET bad == [ok |-> FALSE, kind |-> "none", fields |-> <<>>]
      n == Len(text)
  IN IF n = 0 THEN bad
     ELSE IF n = 1 THEN
            IF text[1] = Lit("null") THEN [ok |-> TRUE, kind |-> "null", fields |-> <<>>]
            ELSE IF IsScalar(text[1]) THEN [ok |-> TRUE, kind |-> "scalar", fields |-> <<>>]
            ELSE bad
     ELSE IF text = <<Punct("["), Punct("]")>> THEN [ok |-> TRUE, kind |-> "arr", fields |-> <<>>]
     ELSE IF text = <<Punct("{"), Punct("}")>> THEN [ok |-> TRUE, kind |-> "obj", fields |-> <<>>]
     ELSE IF text[1] = Punct("{") /\ text[n] = Punct("}") THEN
            LET r == ParseMembers(SubSeq(text, 2, n - 1), <<>>)
            IN IF r.ok THEN [ok |-> TRUE, kind |-> "obj", fields |-> r.fields] ELSE bad
     ELSE bad

\* obj.key of a parsed value: <<>> is undefined; a repeated key keeps its
\* last value.
RECURSIVE Get(_, _)
Get(fields, key) ==
  IF fields = <<>> THEN NULL
  ELSE LET f == fields[Len(fields)]
       IN IF f.key = key THEN Some(f.val)
          ELSE Get(SubSeq(fields, 1, Len(fields) - 1), key)

\* JavaScript truthiness of obj.key: undefined, null, false, 0 and "" are falsy
Truthy(v) ==
  /\ v # NULL
  /\ \/ v[1].k = "num" /\ v[1].n # 0
     \/ v[1].k = "str" /\ v[1].s # ""
     \/ v[1] = Lit("true")

\* ---------------------------------------------------------- lib/crypto.ts
SECRET_KEY == "default-secret-key-for-dev-12345"
\* the key of a system that is not this one
OTHER_KEY == "my-secret-key"

\* CryptoJS.AES.encrypt(text, key).toString(): an envelope is the key it was
\* made under and the text it hides.  alt is what the AES inverse yields
\* under every other key: bytes that are no UTF-8 ("malformed"), no bytes
\* ("empty") or readable junk ("text").  An envelope of key "none" is a
\* string no key made.
Envelope(key, text, alt) == [key |-> key, plain |-> text, alt |-> alt]

encrypt(text) == Envelope(SECRET_KEY, text, "malformed")

\* CryptoJS.AES.decrypt(ciphertext, key).toString(CryptoJS.enc.Utf8)
AESdecryptUtf8(ciphertext, key) ==
  IF ciphertext.key = key THEN [threw |-> FALSE, text |-> ciphertext.plain]
  ELSE IF ciphertext.alt = "malformed" THEN [threw |-> TRUE, text |-> <<>>]
  ELSE IF ciphertext.alt = "empty" THEN [threw |-> FALSE, text |-> <<>>]
  ELSE [threw |-> FALSE, text |-> <<Raw("junk")>>]

\* decrypt: null when the inverse throws or yields the empty string
decrypt(ciphertext) ==
  LET r == AESdecryptUtf8(ciphertext, SECRET_KEY)
  IN IF r.threw THEN NULL
     ELSE IF r.text = <<>> THEN NULL
     ELSE Some(r.text)

\* ------------------------------------------------- generator form (zod)
\* 90 and 180 degrees in coordinate units
LAT_MAX == 10007557
LON_MAX == 20015114

\* the number Infinity, and NaN; NaN compares false with every number
INF == 999999999
NaN == -1
JsGreater(a, b) == a # NaN /\ a > b
JsAtMost(a, b) == a # NaN /\ a <= b

\* the one non-zero longitude of the model
LonA == 7

qrFormSchema(data) ==
  /\ data.name # ""
  /\ data.latitude >= -LAT_MAX /\ data.latitude <= LAT_MAX
  /\ data.longitude >= -LON_MAX /\ data.longitude <= LON_MAX
  /\ data.address # ""

\* QrGenerator.onSubmit: the payload, serialized and encrypted
Payload(data) ==
  << Field("name", Str(data.name)),
     Field("latitude", Num(data.latitude)),
     Field("longitude", Num(data.longitude)),
     Field("address", Str(data.address)),
     Field("version", Str("1.0.0")),
     Field("timestamp", Str("2025-01-01T00:00:00.000Z")) >>

onSubmit(data) == encrypt(JSONstringify(Payload(data)))

\* what the user can type into the form
TargetLats == {0} \cup {100 * i : i \in 1..NumTargetLats}
FormInputs ==
  [name : {"", "Gate"}, latitude : TargetLats \cup {LAT_MAX + 1},
   longitude : {0, LonA}, address : {"", "1 Main St"}]
FormAccepted == {d \in FormInputs : qrFormSchema(d)}

\* ----------------------------------------------- strings a QR code can hold
RequiredKeys == <<"name", "latitude", "longitude", "address">>

\* the payload of an accepted form without its i-th required member
Without(fields, key) == SelectSeq(fields, LAMBDA f : f.key # key)

FullData == [name |-> "Gate", latitude |-> 100, longitude |-> LonA, address |-> "1 Main St"]

\* a payload whose latitude is written 1e999, which JSON.parse reads as Infinity
HugeLatitude ==
  JSONstringify(<< Field("name", Str("Gate")), Field("latitude", Num(INF)),
                   Field("longitude", Num(LonA)), Field("address", Str("1 Main St")) >>)

\* payloads whose latitude is a number beyond 90 degrees, and a word
OutOfRangeLatitude ==
  JSONstringify(<< Field("name", Str("Gate")), Field("latitude", Num(LAT_MAX + 1)),
                   Field("longitude", Num(LonA)), Field("address", Str("1 Main St")) >>)
WordLatitude ==
  JSONstringify(<< Field("name", Str("Gate")), Field("latitude", Str("north")),
                   Field("longitude", Num(LonA)), Field("address", Str("1 Main St")) >>)

ForeignTexts ==
  { <<Lit("null")>>, <<Num(5)>>, <<Punct("["), Punct("]")>>,
    <<Raw("hello")>>, <<>>, HugeLatitude, OutOfRangeLatitude, WordLatitude }
  \cup {JSONstringify(Without(Payload(FullData), RequiredKeys[i])) : i \in 1..4}

ValidEnvelopes == {onSubmit(d) : d \in FormAccepted}
ForeignEnvelopes == {encrypt(t) : t \in ForeignTexts}
JunkEnvelopes == {Envelope("none", <<>>, a) : a \in {"malformed", "empty", "text"}}
\* the envelopes another system makes of a payload under its own key: what
\* the AES inverse under SECRET_KEY yields depends on the bytes of the
\* ciphertext (the unpadding takes the last byte as the pad length without
\* checking it), so each of the three outcomes occurs
WrongKeyEnvelopes ==
  {Envelope(OTHER_KEY, JSONstringify(Payload(FullData)), a) : a \in {"malformed", "empty", "text"}}
Envelopes == ValidEnvelopes \cup ForeignEnvelopes \cup JunkEnvelopes \cup WrongKeyEnvelopes

\* --------------------------------------------------------- geolocation
DeviceFixes ==
  {[lat |-> IF i = 1 THEN 0 ELSE 100 * i + 1, long |-> LonA, accuracy |-> 5] : i \in 1..NumDeviceFixes}

\* a GeolocationPositionError carries code and the constant PERMISSION_DENIED;
\* the Error that requestLocation rejects with when navigator.geolocation is
\* missing carries neither (both undefined)
PositionErrors == {[code |-> Some(c), PERMISSION_DENIED |-> Some(1)] : c \in 1..3}
UnsupportedError == [code |-> NULL, PERMISSION_DENIED |-> NULL]

\* ----------------------------------------------------------- messages
ErrLocationGeneric == "Could not get your location. Please enable location services in your browser settings and try again."
ErrLocationDenied == "Location access was denied. You must grant permission to verify your location."
ErrDecryption == "Decryption failed. This QR code is invalid or from a different system."
ErrMissing == "QR code is missing required location data."
ErrNoDevice == "Device location was not available for verification."
ErrCameraGeneric == "Failed to access camera. Please check browser permissions."
ErrCameraDenied == "Camera access was denied. You must grant permission to scan QR codes."
ErrStart == "An unexpected error occurred while starting the scanner."
ErrScanFile == "Could not scan the QR code from the image. Please try another image."
ErrNoCode == "No QR code could be detected in the uploaded image. Please ensure it's clear and fully visible."
\* messages of exceptions the runtime and the libraries raise
ErrSyntax == "SyntaxError: Unexpected token in JSON"
ErrNullRead == "TypeError: Cannot read properties of null (reading 'latitude')"
ErrCoordinates == "coordinates must contain numbers"
ErrNoElement == "TypeError: Cannot read properties of null (reading 'clientWidth')"

\* ------------------------------------------------------- LocationVerifier
THRESHOLD == 100

\* the threshold taken as strict: a distance of exactly 100 is too far
LocationVerifier_strict(error, distance) ==
  IF error # NULL /\ error[1] # "" THEN "Error"
  ELSE IF distance # NULL /\ JsGreater(distance[1], THRESHOLD - 1) THEN "TooFar"
  ELSE IF distance # NULL /\ JsAtMost(distance[1], THRESHOLD - 1) THEN "Success"
  ELSE "Invalid"

LocationVerifier(error, distance) ==
  IF error # NULL /\ error[1] # "" THEN "Error"
  ELSE IF distance # NULL /\ JsGreater(distance[1], THRESHOLD) THEN "TooFar"
  ELSE IF distance # NULL /\ JsAtMost(distance[1], THRESHOLD) THEN "Success"
  ELSE "Invalid"

\* what QrScanner returns from its render
QrScannerRender(state, error, distance) ==
  IF state \in {"result", "verifying"} THEN LocationVerifier(error, distance)
  ELSE "Scanner"

\* ------------------------------------------------------------ QrScanner
Abs(x) == IF x < 0 THEN -x ELSE x
Isqrt(x) == CHOOSE r \in 0..x : r * r <= x /\ (r + 1) * (r + 1) > x

\* @turf/distance in metres between <<lon, lat>> pairs: the length of the
\* meridian arc when the longitudes agree, and for the model's points, all
\* within a kilometre of each other at the equator, the planar norm; an
\* infinite coordinate makes the sines NaN and so the distance
turfDistance(from, to) ==
  IF INF \in {Abs(from[1]), Abs(from[2]), Abs(to[1]), Abs(to[2])} THEN NaN
  ELSE IF from[1] = to[1] THEN Abs(from[2] - to[2])
  ELSE Isqrt((from[1] - to[1]) * (from[1] - to[1]) + (from[2] - to[2]) * (from[2] - to[2]))

\* the outcome of the body of processDecodedText: an exception with its
\* message, or the values verifyDistance stores
Thrown(msg) == [threw |-> TRUE, msg |-> msg, dist |-> 0, device |-> NULL, target |-> NULL]
Verified(dist, device, target) ==
  [threw |-> FALSE, msg |-> "", dist |-> dist, device |-> Some(device), target |-> Some(target)]
\* whether the outcome r came out of verifyDistance
CalledVerify(r) == ~r.threw \/ r.msg = ErrCoordinates

\* verifyDistance: point() throws on a coordinate that is no number (the
\* strings of the model are words, which isNumber refuses)
verifyDistance(qrLocation, currentDeviceLocation) ==
  LET lat == Get(qrLocation, "latitude")[1]
      lon == Get(qrLocation, "longitude")[1]
  IN IF lat.k # "num" \/ lon.k # "num" THEN Thrown(ErrCoordinates)
     ELSE Verified(turfDistance(<<lon.n, lat.n>>,
                                <<currentDeviceLocation.long, currentDeviceLocation.lat>>),
                   currentDeviceLocation, qrLocation)

\* processDecodedText, lines 94-108; closureLocation is the deviceLocation of
\* the render that created the handler
TryVerify(decodedText, closureLocation) ==
  LET decrypted == decrypt(decodedText)
  IN IF decrypted = NULL THEN Thrown(ErrDecryption)
     ELSE LET parsed == JSONparse(decrypted[1])
          IN IF ~parsed.ok THEN Thrown(ErrSyntax)
             ELSE IF parsed.kind = "null" THEN Thrown(ErrNullRead)
             ELSE IF \/ ~Truthy(Get(parsed.fields, "latitude"))
                     \/ ~Truthy(Get(parsed.fields, "longitude"))
                     \/ ~Truthy(Get(parsed.fields, "name"))
                     \/ ~Truthy(Get(parsed.fields, "address"))
                  THEN Thrown(ErrMissing)
             ELSE IF closureLocation # NULL
                  THEN verifyDistance(parsed.fields, closureLocation[1])
             ELSE Thrown(ErrNoDevice)

\* TryVerify over the strings and the positions of the model, computed once
TryVerifyOf ==
  [decodedText \in Envelopes, closureLocation \in {NULL} \cup {Some(p) : p \in DeviceFixes}
     |-> TryVerify(decodedText, closureLocation)]

handleLocationError(error) ==
  IF error.code = error.PERMISSION_DENIED THEN ErrLocationDenied ELSE ErrLocationGeneric

\* --------------------------------------- part_008: getDistanceInMeters
\* The haversine formula of the scanner of part_008.  Angles are whole
\* degrees, a sine or cosine is the nearest thousandth (held as an integer,
\* 1000 is 1.0), and a product is rounded to the nearest thousandth the way
\* a floating-point product is rounded: the same way for either sign.
MAX_ALLOWED_DISTANCE_METERS == 100
\* R * Math.PI / 180 for R = 6371e3: the metres of one degree of arc
METRES_PER_DEGREE == 111195

\* Math.sin of d degrees, d in 1..90, in thousandths
SinTable ==
  << 17, 35, 52, 70, 87, 105, 122, 139, 156, 174, 191, 208, 225, 242, 259,
     276, 292, 309, 326, 342, 358, 375, 391, 407, 423, 438, 454, 469, 485, 500,
     515, 530, 545, 559, 574, 588, 602, 616, 629, 643, 656, 669, 682, 695, 707,
     719, 731, 743, 755, 766, 777, 788, 799, 809, 819, 829, 839, 848, 857, 866,
     875, 883, 891, 899, 906, 914, 921, 927, 934, 940, 946, 951, 956, 961, 966,
     970, 974, 978, 982, 985, 988, 990, 993, 995, 996, 998, 999, 999, 1000, 1000 >>
MathSinPos(x) ==
  LET r == x % 360
      T(d) == IF d = 0 THEN 0 ELSE SinTable[d]
  IN IF r <= 90 THEN T(r)
     ELSE IF r <= 180 THEN T(180 - r)
     ELSE IF r <= 270 THEN -T(r - 180)
     ELSE -T(360 - r)
\* Math.sin and Math.cos; of an infinite angle they are NaN
Mathsin(x) == IF x < 0 THEN -MathSinPos(-x) ELSE MathSinPos(x)
Mathcos(x) == Mathsin(x + 90)
\* x * y and x / 2 of floating point, rounded towards zero
Times(x, y) == IF x * y < 0 THEN -((-(x * y)) \div 1000) ELSE (x * y) \div 1000
HalfOf(x) == IF x < 0 THEN -((-x) \div 2) ELSE x \div 2
\* Math.sqrt of a number in thousandths, 0 <= x <= 1000
Mathsqrt(x) == CHOOSE r \in 0..1000 : r * r <= x * 1000 /\ (r + 1) * (r + 1) > x * 1000
\* Math.atan2(y, x) in degrees for y, x >= 0: the angle whose direction is
\* nearest to (x, y)
Mathatan2(y, x) ==
  CHOOSE t \in 0..90 :
    \A u \in 0..90 :
      LET et == Abs(y * Mathcos(t) - x * Mathsin(t))
          eu == Abs(y * Mathcos(u) - x * Mathsin(u))
      IN et < eu \/ (et = eu /\ t <= u)

\* getDistanceInMeters with cos(lat1) squared in place of cos(lat1) * cos(lat2)
getDistanceInMeters_oneCosine(lat1, lon1, lat2, lon2) ==
  IF INF \in {Abs(lat1), Abs(lon1), Abs(lat2), Abs(lon2)} THEN NaN
  ELSE
    LET dphi == lat2 - lat1
        dlam == lon2 - lon1
        a == Times(Mathsin(HalfOf(dphi)), Mathsin(HalfOf(dphi)))
             + Times(Times(Times(Mathcos(lat1), Mathcos(lat1)), Mathsin(HalfOf(dlam))),
                     Mathsin(HalfOf(dlam)))
    IN IF a > 1000 THEN NaN
       ELSE METRES_PER_DEGREE * (2 * Mathatan2(Mathsqrt(a), Mathsqrt(1000 - a)))

\* getDistanceInMeters(lat1, lon1, lat2, lon2): the operations of lines
\* 330-340 in their order
getDistanceInMeters(lat1, lon1, lat2, lon2) ==
  IF INF \in {Abs(lat1), Abs(lon1), Abs(lat2), Abs(lon2)} THEN NaN
  ELSE
    LET dphi == lat2 - lat1
        dlam == lon2 - lon1
        a == Times(Mathsin(HalfOf(dphi)), Mathsin(HalfOf(dphi)))
             + Times(Times(Times(Mathcos(lat1), Mathcos(lat2)), Mathsin(HalfOf(dlam))),
                     Mathsin(HalfOf(dlam)))
    IN IF a > 1000 THEN NaN
       ELSE METRES_PER_DEGREE * (2 * Mathatan2(Mathsqrt(a), Mathsqrt(1000 - a)))

\* the coordinates the distance is measured between: HvGrid steps from pole
\* to pole and around the globe; a QR payload may also carry 1e999, which
\* JSON.parse reads as Infinity
HvLats == {-90 + (180 \div HvGrid) * i : i \in 0..HvGrid}
HvLons == {-180 + (360 \div HvGrid) * i : i \in 0..HvGrid}
QrLocations == [lat : HvLats \cup {INF}, long : HvLons]
HvDeviceLocations == [lat : HvLats, long : HvLons]
\* no distance is being measured
HavAtRest == [qr |-> NULL, device |-> NULL, distance |-> NULL, swapped |-> NULL]

\* ------------------------- components/qr-scanner.tsx: scan and append
\* the scanner after its first render: the effect has called start()
SaInitial ==
  [scannedData |-> NULL, error |-> NULL, isLoading |-> FALSE,
   state |-> "NOT_STARTED", starting |-> "mount", fileScan |-> FALSE, calls |-> <<>>]

\* ------------------ components/qrcode/qr-generator.tsx: geo-locked codes
\* the generator after its first render
GenInitial ==
  [jsonData |-> "", qrValue |-> NULL, isGenerating |-> FALSE, loading |-> FALSE,
   request |-> NULL]

\* ------------------------------------------- part_005: useChatSocket
\* a message: its id (<<"temp", Date.now()>> or <<"mock", n>>), text and
\* status; seq tells the messages the user sent apart (0: not sent here)
Message(id, text, status, seq) == [id |-> id, text |-> text, status |-> status, seq |-> seq]
mockHistory == << Message(<<"mock", 1>>, "Hello! This is a mock chat history.", "", 0),
                  Message(<<"mock", 2>>, "You can switch to a real backend via environment variables.", "", 0) >>
\* a setTimeout of the mock socket number sock, set at time at
Timer(sock, kind, at, msg) == [sock |-> sock, kind |-> kind, at |-> at, msg |-> msg]
NoMessage == Message(<<"none", 0>>, "", "", 0)

\* connect() that leaves the connected flag to the 'connect' event
mockConnect_lazy(c) ==
  IF ~c.socketConnected
  THEN [c EXCEPT !.timers = Append(@, Timer(c.sock, "connect", c.now, NoMessage))]
  ELSE c

\* createMockSocket.connect, for the socket in socketRef
mockConnect(c) ==
  IF ~c.socketConnected
  THEN [c EXCEPT !.socketConnected = TRUE,
                 !.timers = Append(@, Timer(c.sock, "connect", c.now, NoMessage))]
  ELSE c

\* createMockSocket.disconnect
mockDisconnect(c) ==
  IF c.socketConnected
  THEN [c EXCEPT !.socketConnected = FALSE,
                 !.timers = Append(@, Timer(c.sock, "disconnect", c.now, NoMessage))]
  ELSE c

Rooms == 1..NumRooms
\* the hook after its first commit: the socket effect has made socket 1,
\* called connect() and set the mock history, which the save effect stored
ChatInitial ==
  mockConnect([room |-> 1, messages |-> mockHistory, connected |-> FALSE,
               sock |-> 1, socketConnected |-> FALSE, timers |-> <<>>,
               now |-> 0, sends |-> 0,
               storage |-> [r \in Rooms |-> IF r = 1 THEN mockHistory ELSE <<>>]])

\* html5-qrcode: isScanning is true from the moment start() has succeeded
\* until stop() has completed
isScanning(cam) == cam \in {"on", "stopping"}

\* --------------------------------------------------------------- state
VARIABLES
  scannerState,  \* the ScannerState, or "unmounted" once the component is gone
  targetLocation, deviceLocation, verificationError, distanceToTarget,
  camera,        \* html5-qrcode: "off", "starting", "on", "stopping"
  camPc,         \* the startCameraScan call in flight: "done", "getCameras", "location"
  upPc,          \* the handleFileScanClick call in flight: "done", "location"
  filePc,        \* the handleFileSelected call in flight: "done", "scanFile"
  pickerOpen,    \* the file dialog is open
  runLocation,   \* deviceLocation as the startCameraScan call in flight sees it
  cbLocation,    \* deviceLocation as the processDecodedText handed to start() sees it
  fileLocation,  \* deviceLocation as the handleFileSelected call in flight sees it
                 \* (each <<>> once the call or the camera that held it is gone)
  geoSupported,  \* navigator.geolocation exists
  view,          \* what the component renders
  path,          \* how the current attempt began: "none", "camera", "file";
                 \* "cancelled" from Cancel until the next attempt begins
  attemptLocation, \* the position requestLocation delivered in the current attempt
  lastText,      \* the string handed to processDecodedText in the step that led
                 \* here, <<>> when that step was not such a call
  lastResult,    \* what the body of that call came to
  sa,            \* components/qr-scanner.tsx, the scan-and-append scanner:
                 \* scannedData, error, isLoading, the Html5Qrcode state, the
                 \* start() and scanFile() calls in flight and the decrypted
                 \* values of the processDecodedText calls waiting for the position
  gen,           \* components/qrcode/qr-generator.tsx, the geo-locked QrGenerator:
                 \* the text of the input field, qrValue, isGenerating, whether
                 \* the "Getting Location..." message is on screen, and the
                 \* values of the submission waiting for the position
  chat,          \* part_005, useChatSocket with the mock socket: the room,
                 \* messages, connected, the socket in socketRef (its number
                 \* and its connected flag), the timers of the mock sockets,
                 \* the clock of Date.now(), the number of messages sent and
                 \* sessionStorage
  hav            \* part_008: the QR location and the device location a distance
                 \* is measured between, the distance, and the distance with
                 \* the two swapped

vars == <<scannerState, targetLocation, deviceLocation, verificationError, distanceToTarget,
          camera, camPc, upPc, filePc, pickerOpen, runLocation, cbLocation, fileLocation,
          geoSupported, view, path, attemptLocation, lastText, lastResult,
          sa, gen, chat, hav>>
\* the state of the location-verification scanner of part_006
scannerVars ==
  <<scannerState, targetLocation, deviceLocation, verificationError, distanceToTarget,
    camera, camPc, upPc, filePc, pickerOpen, runLocation, cbLocation, fileLocation,
    geoSupported, view, path, attemptLocation, lastText, lastResult>>
\* the state of the other components
otherVars == <<sa, gen, chat, hav>>

stateVars == <<targetLocation, deviceLocation, verificationError, distanceToTarget>>
callVars == <<camPc, upPc, filePc, pickerOpen, runLocation, cbLocation, fileLocation>>
attemptVars == <<path, attemptLocation>>
\* React keeps the state while the component is mounted; a setState call of
\* a callback that runs after the unmount does nothing
mounted == scannerState # "unmounted"
setScannerState(s) == scannerState' = IF mounted THEN s ELSE scannerState
setVerificationError(e) == verificationError' = IF mounted THEN e ELSE verificationError
setDeviceLocation(l) == deviceLocation' = IF mounted THEN l ELSE deviceLocation
setTargetLocation(t) == targetLocation' = IF mounted THEN t ELSE targetLocation
setDistanceToTarget(d) == distanceToTarget' = IF mounted THEN d ELSE distanceToTarget

\* the call of processDecodedText of the last step, if it was one, has
\* returned; nothing else runs before it has
Returned == lastText = NULL
\* the step is no call of processDecodedText
NoCall == lastText' = NULL /\ lastResult' = NULL

Rendered ==
  view' = IF scannerState' = "unmounted" THEN "None"
          ELSE QrScannerRender(scannerState', verificationError', distanceToTarget')

\* the scanner of part_006 after its first render
ScannerInit ==
  /\ scannerState = "idle"
  /\ targetLocation = NULL /\ deviceLocation = NULL
  /\ verificationError = NULL /\ distanceToTarget = NULL
  /\ camera = "off"
  /\ camPc = "done" /\ upPc = "done" /\ filePc = "done"
  /\ pickerOpen = FALSE
  /\ runLocation = NULL /\ cbLocation = NULL /\ fileLocation = NULL
  /\ geoSupported \in BOOLEAN
  /\ view = "Scanner"
  /\ path = "none" /\ attemptLocation = NULL /\ lastText = NULL /\ lastResult = NULL

\* every component after construction
Init ==
  /\ ScannerInit
  /\ sa = SaInitial
  /\ gen = GenInitial
  /\ chat = ChatInitial
  /\ hav = HavAtRest

\* the attempt is over when the scanner is back in "idle": the record of the
\* attempt is dropped
AttemptOver ==
  path' = "none" /\ attemptLocation' = NULL /\ lastText' = NULL /\ lastResult' = NULL

\* stopScan up to its await: stop() is called when the camera is scanning;
\* a stop() already in progress makes the second call throw, which is caught
stopScanCamera(cam) == IF cam = "on" THEN "stopping" ELSE cam
\* stopScan reaches setScannerState("idle") without waiting
stopScanIsSync(cam) == cam # "on"

\* processDecodedText whose catch forgets setScannerState("result")
processDecodedText_noResult(decodedText, closureLocation) ==
  LET r == TryVerifyOf[decodedText, closureLocation]
  IN /\ camera' = stopScanCamera(camera)
     /\ setScannerState(IF r.threw THEN "verifying" ELSE "result")
     /\ IF r.threw
        THEN /\ setVerificationError(Some(r.msg))
             /\ UNCHANGED <<targetLocation, deviceLocation, distanceToTarget>>
        ELSE /\ setDistanceToTarget(Some(r.dist))
             /\ setDeviceLocation(r.device)
             /\ setTargetLocation(r.target)
             /\ UNCHANGED verificationError
     /\ lastText' = Some(decodedText)
     /\ lastResult' = Some(r)

\* processDecodedText that does not call stopScan
processDecodedText_noStop(decodedText, closureLocation) ==
  LET r == TryVerifyOf[decodedText, closureLocation]
  IN /\ camera' = camera
     /\ setScannerState("result")
     /\ IF r.threw
        THEN /\ setVerificationError(Some(r.msg))
             /\ UNCHANGED <<targetLocation, deviceLocation, distanceToTarget>>
        ELSE /\ setDistanceToTarget(Some(r.dist))
             /\ setDeviceLocation(r.device)
             /\ setTargetLocation(r.target)
             /\ UNCHANGED verificationError
     /\ lastText' = Some(decodedText)
     /\ lastResult' = Some(r)

\* processDecodedText(decodedText) of a render whose deviceLocation is
\* closureLocation
processDecodedText(decodedText, closureLocation) ==
  LET r == TryVerifyOf[decodedText, closureLocation]
  IN /\ camera' = stopScanCamera(camera)
     /\ setScannerState("result")
     /\ IF r.threw
        THEN /\ setVerificationError(Some(r.msg))
             /\ UNCHANGED <<targetLocation, deviceLocation, distanceToTarget>>
        ELSE /\ setDistanceToTarget(Some(r.dist))
             /\ setDeviceLocation(r.device)
             /\ setTargetLocation(r.target)
             /\ UNCHANGED verificationError
     /\ lastText' = Some(decodedText)
     /\ lastResult' = Some(r)

\* the user can press a button of the mounted page only while no file dialog is open,
\* and the model lets a new attempt begin only when no permission request of
\* an earlier call is in flight
CanClick == mounted /\ ~pickerOpen
NoRequestInFlight == camPc = "done" /\ upPc = "done"

StartCameraScan ==
  /\ Returned
  /\ UNCHANGED otherVars
  /\ scannerState = "idle" /\ CanClick /\ NoRequestInFlight
  /\ scannerState' = "requesting"
  /\ verificationError' = NULL
  /\ camPc' = "getCameras"
  /\ runLocation' = deviceLocation
  /\ path' = "camera" /\ attemptLocation' = NULL /\ lastText' = NULL /\ lastResult' = NULL
  /\ UNCHANGED <<targetLocation, deviceLocation, distanceToTarget, camera, upPc, filePc,
                 pickerOpen, cbLocation, fileLocation, geoSupported>>
  /\ Rendered

\* startCameraScan returning after getCameras() without asking for the
\* location
GetCamerasDone_noLocation(outcome) ==
  /\ Returned
  /\ UNCHANGED otherVars
  /\ camPc = "getCameras"
  /\ IF outcome = "ok" /\ geoSupported
     THEN /\ camPc' = "done"
          /\ UNCHANGED <<scannerState, verificationError>>
          /\ runLocation' = NULL
     ELSE /\ camPc' = "done"
          /\ runLocation' = NULL
          /\ setScannerState("result")
          /\ setVerificationError(
               Some(IF outcome = "ok" THEN handleLocationError(UnsupportedError)
                    ELSE IF outcome = "denied" THEN ErrCameraDenied
                    ELSE ErrCameraGeneric))
  /\ UNCHANGED <<targetLocation, deviceLocation, distanceToTarget, camera, upPc, filePc,
                 pickerOpen, cbLocation, fileLocation, geoSupported>>
  /\ UNCHANGED attemptVars /\ NoCall
  /\ Rendered

\* Html5Qrcode.getCameras() answers; on "ok" requestLocation is called
GetCamerasDone(outcome) ==
  /\ Returned
  /\ UNCHANGED otherVars
  /\ camPc = "getCameras"
  /\ IF outcome = "ok" /\ geoSupported
     THEN /\ camPc' = "location"
          /\ UNCHANGED <<scannerState, verificationError>>
          /\ UNCHANGED runLocation
     ELSE /\ camPc' = "done"
          /\ runLocation' = NULL
          /\ setScannerState("result")
          /\ setVerificationError(
               Some(IF outcome = "ok" THEN handleLocationError(UnsupportedError)
                    ELSE IF outcome = "denied" THEN ErrCameraDenied
                    ELSE ErrCameraGeneric))
  /\ UNCHANGED <<targetLocation, deviceLocation, distanceToTarget, camera, upPc, filePc,
                 pickerOpen, cbLocation, fileLocation, geoSupported>>
  /\ UNCHANGED attemptVars /\ NoCall
  /\ Rendered

\* the element html5-qrcode renders into is part of the page that shows the
\* scanner, not of the LocationVerifier page, and is gone after the unmount
readerMounted == scannerState \in {"idle", "requesting", "scanning"}

\* the position arrives in startCameraScan; start() is called, and throws at
\* once when the library is not stopped (a string, which has no message) or
\* when its element is not in the page (a TypeError)
CameraLocationOk(fix) ==
  /\ Returned
  /\ UNCHANGED otherVars
  /\ camPc = "location"
  /\ camPc' = "done"
  /\ setDeviceLocation(Some(fix))
  /\ attemptLocation' = IF mounted THEN Some(fix) ELSE NULL
  /\ IF camera = "off" /\ readerMounted
     THEN /\ camera' = "starting"
          /\ cbLocation' = runLocation
          /\ setScannerState("scanning")
          /\ UNCHANGED verificationError
     ELSE /\ camera' = stopScanCamera(camera)
          /\ setVerificationError(
               Some(IF isScanning(camera) \/ readerMounted THEN ErrStart ELSE ErrNoElement))
          /\ setScannerState("result")
          /\ UNCHANGED cbLocation
  /\ runLocation' = NULL
  /\ UNCHANGED <<targetLocation, distanceToTarget, upPc, filePc, pickerOpen,
                 fileLocation, geoSupported, path>>
  /\ NoCall
  /\ Rendered

CameraLocationFail(error) ==
  /\ Returned
  /\ UNCHANGED otherVars
  /\ camPc = "location"
  /\ camPc' = "done"
  /\ runLocation' = NULL
  /\ setVerificationError(Some(handleLocationError(error)))
  /\ setScannerState("result")
  /\ UNCHANGED <<targetLocation, deviceLocation, distanceToTarget, camera, upPc, filePc,
                 pickerOpen, cbLocation, fileLocation, geoSupported>>
  /\ UNCHANGED attemptVars /\ NoCall
  /\ Rendered

\* start() resolves: the camera runs and hands decoded strings to the callback
CameraStartOk ==
  /\ Returned
  /\ UNCHANGED otherVars
  /\ camera = "starting"
  /\ camera' = "on"
  /\ UNCHANGED <<scannerState, stateVars, callVars, geoSupported, attemptVars>>
  /\ NoCall
  /\ Rendered

\* the catch of startCameraScan in which the "idle" of stopScan is the last
\* write
CameraStartFail_idle ==
  /\ Returned
  /\ UNCHANGED otherVars
  /\ camera = "starting"
  /\ camera' = "off"
  /\ cbLocation' = NULL
  /\ setVerificationError(Some(ErrStart))
  /\ setScannerState("idle")
  /\ UNCHANGED <<targetLocation, deviceLocation, distanceToTarget, camPc, upPc, filePc,
                 pickerOpen, runLocation, fileLocation, geoSupported>>
  /\ UNCHANGED attemptVars /\ NoCall
  /\ Rendered

\* start() rejects: the catch of startCameraScan, lines 161-165
CameraStartFail ==
  /\ Returned
  /\ UNCHANGED otherVars
  /\ camera = "starting"
  /\ camera' = "off"
  /\ cbLocation' = NULL
  /\ setVerificationError(Some(ErrStart))
  /\ setScannerState("result")
  /\ UNCHANGED <<targetLocation, deviceLocation, distanceToTarget, camPc, upPc, filePc,
                 pickerOpen, runLocation, fileLocation, geoSupported>>
  /\ UNCHANGED attemptVars /\ NoCall
  /\ Rendered

\* the camera decodes a QR code and calls processDecodedText
CameraDecode(decodedText) ==
  /\ Returned
  /\ UNCHANGED otherVars
  /\ camera = "on"
  /\ processDecodedText(decodedText, cbLocation)
  /\ UNCHANGED <<callVars, geoSupported, path, attemptLocation>>
  /\ Rendered

\* the stop() of a stopScan call resolves and stopScan goes on to line 45
StopComplete ==
  /\ Returned
  /\ UNCHANGED otherVars
  /\ camera = "stopping"
  /\ camera' = "off"
  /\ cbLocation' = NULL
  /\ setScannerState("idle")
  /\ path' = IF path = "cancelled" THEN path ELSE "none"
  /\ attemptLocation' = NULL
  /\ NoCall
  /\ UNCHANGED <<stateVars, camPc, upPc, filePc, pickerOpen, runLocation, fileLocation,
                 geoSupported>>
  /\ Rendered

\* the Cancel button, shown while scanning, calls stopScan
Cancel ==
  /\ Returned
  /\ UNCHANGED otherVars
  /\ scannerState = "scanning" /\ CanClick
  /\ camera' = stopScanCamera(camera)
  /\ IF stopScanIsSync(camera)
     THEN scannerState' = "idle" /\ attemptLocation' = NULL
     ELSE UNCHANGED <<scannerState, attemptLocation>>
  /\ path' = "cancelled"
  /\ NoCall
  /\ UNCHANGED <<stateVars, callVars, geoSupported>>
  /\ Rendered

handleFileScanClick ==
  /\ Returned
  /\ UNCHANGED otherVars
  /\ scannerState = "idle" /\ CanClick /\ NoRequestInFlight
  /\ IF geoSupported
     THEN /\ upPc' = "location"
          /\ scannerState' = "requesting"
          /\ verificationError' = NULL
     ELSE /\ UNCHANGED upPc
          /\ scannerState' = "result"
          /\ verificationError' = Some(handleLocationError(UnsupportedError))
  /\ path' = "file" /\ attemptLocation' = NULL /\ lastText' = NULL /\ lastResult' = NULL
  /\ UNCHANGED <<targetLocation, deviceLocation, distanceToTarget, camera, camPc, filePc,
                 pickerOpen, runLocation, cbLocation, fileLocation, geoSupported>>
  /\ Rendered

\* the file input is part of the idle view only, so fileInputRef.current is
\* null in every other state and click() is skipped
fileInputMounted == scannerState = "idle"

FileLocationOk(fix) ==
  /\ Returned
  /\ UNCHANGED otherVars
  /\ upPc = "location"
  /\ upPc' = "done"
  /\ setDeviceLocation(Some(fix))
  /\ attemptLocation' = IF mounted THEN Some(fix) ELSE NULL
  /\ pickerOpen' = (pickerOpen \/ fileInputMounted)
  /\ UNCHANGED <<scannerState, targetLocation, verificationError, distanceToTarget, camera,
                 camPc, filePc, runLocation, cbLocation, fileLocation, geoSupported,
                 path>>
  /\ NoCall
  /\ Rendered

FileLocationFail(error) ==
  /\ Returned
  /\ UNCHANGED otherVars
  /\ upPc = "location"
  /\ upPc' = "done"
  /\ setVerificationError(Some(handleLocationError(error)))
  /\ setScannerState("result")
  /\ UNCHANGED <<targetLocation, deviceLocation, distanceToTarget, camera, camPc, filePc,
                 pickerOpen, runLocation, cbLocation, fileLocation, geoSupported>>
  /\ UNCHANGED attemptVars /\ NoCall
  /\ Rendered

\* the dialog is closed without a file, or with one after the input has left
\* the page: handleFileSelected either is not called or sets "idle" in "idle"
FileDialogClosed ==
  /\ Returned
  /\ UNCHANGED otherVars
  /\ pickerOpen
  /\ pickerOpen' = FALSE
  /\ UNCHANGED <<scannerState, stateVars, camera, camPc, upPc, filePc, runLocation,
                 cbLocation, fileLocation, geoSupported, attemptVars>>
  /\ NoCall
  /\ Rendered

\* handleFileSelected with a file, up to its await; scanFile throws at once
\* while the camera is scanning
handleFileSelected ==
  /\ Returned
  /\ UNCHANGED otherVars
  /\ pickerOpen /\ fileInputMounted /\ filePc = "done"
  /\ pickerOpen' = FALSE
  /\ IF isScanning(camera)
     THEN /\ scannerState' = "result"
          /\ verificationError' = Some(ErrScanFile)
          /\ UNCHANGED <<filePc, fileLocation>>
     ELSE /\ scannerState' = "scanning"
          /\ filePc' = "scanFile"
          /\ fileLocation' = deviceLocation
          /\ UNCHANGED verificationError
  /\ UNCHANGED <<targetLocation, deviceLocation, distanceToTarget, camera, camPc, upPc,
                 runLocation, cbLocation, geoSupported>>
  /\ UNCHANGED attemptVars /\ NoCall
  /\ Rendered

ScanFileOk(decodedText) ==
  /\ Returned
  /\ UNCHANGED otherVars
  /\ filePc = "scanFile"
  /\ filePc' = "done"
  /\ fileLocation' = NULL
  /\ processDecodedText(decodedText, fileLocation)
  /\ UNCHANGED <<camPc, upPc, pickerOpen, runLocation, cbLocation,
                 geoSupported, path, attemptLocation>>
  /\ Rendered

ScanFileFail(noCode) ==
  /\ Returned
  /\ UNCHANGED otherVars
  /\ filePc = "scanFile"
  /\ filePc' = "done"
  /\ fileLocation' = NULL
  /\ setVerificationError(Some(IF noCode THEN ErrNoCode ELSE ErrScanFile))
  /\ setScannerState("result")
  /\ UNCHANGED <<targetLocation, deviceLocation, distanceToTarget, camera, camPc, upPc,
                 pickerOpen, runLocation, cbLocation, geoSupported>>
  /\ UNCHANGED attemptVars /\ NoCall
  /\ Rendered

handleScanAgain ==
  /\ Returned
  /\ UNCHANGED otherVars
  /\ scannerState = "result" /\ CanClick
  /\ targetLocation' = NULL
  /\ deviceLocation' = NULL
  /\ verificationError' = NULL
  /\ distanceToTarget' = NULL
  /\ scannerState' = "idle"
  /\ AttemptOver
  /\ UNCHANGED <<camera, callVars, geoSupported>>
  /\ Rendered

\* the component is unmounted: the effect's cleanup calls stopScan, the state
\* and the page are gone, the calls in flight go on
Unmount ==
  /\ Returned
  /\ UNCHANGED otherVars
  /\ mounted
  /\ camera' = stopScanCamera(camera)
  /\ scannerState' = "unmounted"
  /\ targetLocation' = NULL /\ deviceLocation' = NULL
  /\ verificationError' = NULL /\ distanceToTarget' = NULL
  /\ pickerOpen' = FALSE
  /\ AttemptOver
  /\ UNCHANGED <<camPc, upPc, filePc, runLocation, cbLocation, fileLocation, geoSupported>>
  /\ Rendered

\* the step after a call of processDecodedText: the call has returned and is
\* no longer the call of the last step
CallReturned ==
  /\ lastText # NULL
  /\ UNCHANGED otherVars
  /\ NoCall
  /\ UNCHANGED <<scannerState, stateVars, camera, callVars, geoSupported, view, attemptVars>>

Next ==
  \/ StartCameraScan
  \/ \E outcome \in {"ok", "none", "denied"} : GetCamerasDone(outcome)
  \/ \E fix \in DeviceFixes : CameraLocationOk(fix)
  \/ \E error \in PositionErrors : CameraLocationFail(error)
  \/ CameraStartOk
  \/ CameraStartFail
  \/ \E t \in Envelopes : CameraDecode(t)
  \/ StopComplete
  \/ Cancel
  \/ handleFileScanClick
  \/ \E fix \in DeviceFixes : FileLocationOk(fix)
  \/ \E error \in PositionErrors : FileLocationFail(error)
  \/ FileDialogClosed
  \/ handleFileSelected
  \/ \E t \in Envelopes : ScanFileOk(t)
  \/ \E noCode \in BOOLEAN : ScanFileFail(noCode)
  \/ handleScanAgain
  \/ Unmount
  \/ CallReturned

Spec == Init /\ [][Next]_vars

\* what the platform and the library answer on their own: every request and
\* every start(), stop() and scanFile() call in flight is answered.  The
\* user's actions, the unmount and the camera seeing a QR code are not.
GetCamerasResponds == \E outcome \in {"ok", "none", "denied"} : GetCamerasDone(outcome)
CameraLocationResponds ==
  \/ \E fix \in DeviceFixes : CameraLocationOk(fix)
  \/ \E error \in PositionErrors : CameraLocationFail(error)
FileLocationResponds ==
  \/ \E fix \in DeviceFixes : FileLocationOk(fix)
  \/ \E error \in PositionErrors : FileLocationFail(error)
CameraStartResponds == CameraStartOk \/ CameraStartFail
ScanFileResponds ==
  \/ \E t \in Envelopes : ScanFileOk(t)
  \/ \E noCode \in BOOLEAN : ScanFileFail(noCode)

\* the camera path's two requests are answered
RequestsAnsweredSpec ==
  /\ Spec
  /\ WF_vars(GetCamerasResponds)
  /\ WF_vars(CameraLocationResponds)

LiveSpec ==
  /\ Spec
  /\ WF_vars(GetCamerasResponds)
  /\ WF_vars(CameraLocationResponds)
  /\ WF_vars(FileLocationResponds)
  /\ WF_vars(CameraStartResponds)
  /\ WF_vars(ScanFileResponds)
  /\ WF_vars(StopComplete)
  /\ WF_vars(CallReturned)

\* ---------------------------------------- part_008: the distance check
\* processDecodedText of part_008 measures from the QR location to the
\* device; the swapped measurement is the same call with the two exchanged
TooFar(distance) == JsGreater(distance, MAX_ALLOWED_DISTANCE_METERS)

HavInit ==
  /\ ScannerInit
  /\ sa = SaInitial
  /\ gen = GenInitial
  /\ chat = ChatInitial
  /\ hav \in {[qr |-> Some(q), device |-> Some(d), distance |-> NULL, swapped |-> NULL] :
               q \in QrLocations, d \in HvDeviceLocations}

MeasureDistance ==
  /\ hav.qr # NULL /\ hav.distance = NULL
  /\ hav' = [hav EXCEPT !.distance =
               Some(getDistanceInMeters(hav.qr[1].lat, hav.qr[1].long,
                                        hav.device[1].lat, hav.device[1].long))]
  /\ UNCHANGED <<scannerVars, sa, gen, chat>>

MeasureSwapped ==
  /\ hav.qr # NULL /\ hav.swapped = NULL
  /\ hav' = [hav EXCEPT !.swapped =
               Some(getDistanceInMeters(hav.device[1].lat, hav.device[1].long,
                                        hav.qr[1].lat, hav.qr[1].long))]
  /\ UNCHANGED <<scannerVars, sa, gen, chat>>

HavNext == MeasureDistance \/ MeasureSwapped
HavSpec == HavInit /\ [][HavNext]_vars

\* ------------------------- components/qr-scanner.tsx: scan and append
\* part_012, encryptData and decryptData: the key is "my-secret-key"
encryptData(data) == Envelope(OTHER_KEY, JSONstringify(data), "malformed")

ErrDecryptData == "Failed to decrypt data. The QR code may be invalid, corrupted, or encrypted with a different key."
ErrGeoUnsupported == "Geolocation is not supported by your browser."
ErrUpload == "Failed to process the uploaded file."
ErrFileScan == "Could not scan the QR code from the image."
ErrStartScanner == "Failed to start scanner: undefined. Please grant camera permissions."
\* the message of a GeolocationPositionError
GeoMessages == {"User denied Geolocation", "Timeout expired"}

\* decryptData: the parsed JSON value, or the one Error of its catch
decryptData(cipherText) ==
  LET r == AESdecryptUtf8(cipherText, OTHER_KEY)
      parsed == JSONparse(r.text)
  IN IF r.threw \/ r.text = <<>> \/ ~parsed.ok THEN [threw |-> TRUE, kind |-> "none", fields |-> <<>>]
     ELSE [threw |-> FALSE, kind |-> parsed.kind, fields |-> parsed.fields]

\* what the QR codes in front of the scanner hold: the payload of the
\* generator, a JSON object that has a scanDetails member of its own, a
\* JSON number, and an envelope of another key
AppPayloads ==
  { << Field("data", Str("hello")) >>,
    << Field("scanDetails", Str("mine")), Field("data", Str("hello")) >> }
AppEnvelopes ==
  {encryptData(data) : data \in AppPayloads}
    \cup {Envelope(OTHER_KEY, <<Num(5)>>, "malformed"), encrypt(<<Raw("hello")>>)}

\* the scanDetails object of lines 89-96
ScanDetails(location) ==
  [k |-> "obj", scannedAt |-> "now",
   location |-> [latitude |-> location.lat, longitude |-> location.long,
                 accuracy |-> location.accuracy]]

\* { ...decrypted, scanDetails }: the own members of the value (a number or
\* null has none), then scanDetails, which takes the place of a member of
\* that name
MergedData(decrypted, location) ==
  LET own == IF decrypted.kind = "obj" THEN decrypted.fields ELSE <<>>
      det == Field("scanDetails", ScanDetails(location))
  IN IF \E i \in 1..Len(own) : own[i].key = "scanDetails"
     THEN [i \in 1..Len(own) |-> IF own[i].key = "scanDetails" THEN det ELSE own[i]]
     ELSE Append(own, det)

\* processDecodedText up to the position request, for the state s
saProcessDecodedText(s, decodedText) ==
  LET s1 == [s EXCEPT !.isLoading = TRUE,
                      !.state = IF s.state = "SCANNING" THEN "PAUSED" ELSE s.state]
      decrypted == decryptData(decodedText)
  IN IF decrypted.threw
     THEN [s1 EXCEPT !.error = Some(ErrDecryptData), !.isLoading = FALSE]
     ELSE IF ~geoSupported
     THEN [s1 EXCEPT !.error = Some(ErrGeoUnsupported), !.isLoading = FALSE]
     ELSE [s1 EXCEPT !.calls = Append(s1.calls, decrypted)]

\* handleRescan up to its await: a start() while one is in progress throws
saHandleRescan(s) ==
  LET s1 == [s EXCEPT !.error = NULL, !.scannedData = NULL]
  IN IF s.state = "PAUSED" THEN [s1 EXCEPT !.state = "SCANNING"]
     ELSE IF s.state = "NOT_STARTED" /\ s.starting = "none"
     THEN [s1 EXCEPT !.starting = "rescan"]
     ELSE s1

SaInit ==
  /\ ScannerInit
  /\ sa = SaInitial
  /\ gen = GenInitial
  /\ chat = ChatInitial
  /\ hav = HavAtRest

SaIdle == UNCHANGED <<scannerVars, gen, chat, hav>>

SaStartOk ==
  /\ sa.starting # "none"
  /\ sa' = [sa EXCEPT !.starting = "none", !.state = "SCANNING"]
  /\ SaIdle

\* only startScanner catches the failure of start()
SaStartFail ==
  /\ sa.starting # "none"
  /\ sa' = [sa EXCEPT !.starting = "none",
                      !.error = IF sa.starting = "mount" THEN Some(ErrStartScanner) ELSE @]
  /\ SaIdle

SaCameraDecode(decodedText) ==
  /\ sa.state = "SCANNING"
  /\ Len(sa.calls) < MaxAppCalls
  /\ sa' = saProcessDecodedText(sa, decodedText)
  /\ SaIdle

SaLocationOk(i, location) ==
  /\ i \in 1..Len(sa.calls)
  /\ sa' = [sa EXCEPT !.calls = [j \in 1..(Len(sa.calls) - 1) |->
                                   IF j < i THEN sa.calls[j] ELSE sa.calls[j + 1]],
                      !.scannedData = Some(MergedData(sa.calls[i], location)),
                      !.error = NULL,
                      !.isLoading = FALSE]
  /\ SaIdle

SaLocationFail(i, msg) ==
  /\ i \in 1..Len(sa.calls)
  /\ sa' = [sa EXCEPT !.calls = [j \in 1..(Len(sa.calls) - 1) |->
                                   IF j < i THEN sa.calls[j] ELSE sa.calls[j + 1]],
                      !.error = Some(msg),
                      !.isLoading = FALSE]
  /\ SaIdle

\* the button "Scan Another Code", shown with the scanned data
SaRescanClick ==
  /\ sa.scannedData # NULL
  /\ sa' = saHandleRescan(sa)
  /\ SaIdle

\* handleFileChange up to scanFile; the file input is shown while there is
\* no scanned data, and scanFile throws unless the state is NOT_STARTED
handleFileChange ==
  /\ sa.scannedData = NULL
  /\ ~sa.fileScan
  /\ LET s1 == saHandleRescan(sa)
     IN sa' = IF s1.state # "NOT_STARTED"
              THEN [s1 EXCEPT !.error = Some(ErrUpload), !.isLoading = FALSE]
              ELSE [s1 EXCEPT !.isLoading = TRUE, !.fileScan = TRUE]
  /\ SaIdle

\* scanFile resolves: onScanSuccess, and the finally of handleFileChange
SaScanFileOk(decodedText) ==
  /\ sa.fileScan
  /\ Len(sa.calls) < MaxAppCalls
  /\ sa' = [saProcessDecodedText([sa EXCEPT !.fileScan = FALSE], decodedText)
              EXCEPT !.isLoading = FALSE]
  /\ SaIdle

SaScanFileFail ==
  /\ sa.fileScan
  /\ sa' = [sa EXCEPT !.fileScan = FALSE, !.error = Some(ErrFileScan), !.isLoading = FALSE]
  /\ SaIdle

SaNext ==
  \/ SaStartOk
  \/ SaStartFail
  \/ \E t \in AppEnvelopes : SaCameraDecode(t)
  \/ \E i \in 1..MaxAppCalls, location \in DeviceFixes : SaLocationOk(i, location)
  \/ \E i \in 1..MaxAppCalls, msg \in GeoMessages : SaLocationFail(i, msg)
  \/ SaRescanClick
  \/ handleFileChange
  \/ \E t \in AppEnvelopes : SaScanFileOk(t)
  \/ SaScanFileFail

SaSpec == SaInit /\ [][SaNext]_vars

\* ------------------ components/qrcode/qr-generator.tsx: geo-locked codes
\* what the user can type into the field: nothing, or one of the first
\* NumGenTexts of these texts
GenTextList ==
  << "hello", "world", "{\"gate\": 7}", "7", "Gate 4", "north", "null", " " >>
GenTexts == {""} \cup {GenTextList[i] : i \in 1..NumGenTexts}

\* encryptData({ data, location: { lat, long } }) of lines 250-258
genEncrypted(jsonData, position) ==
  encryptData(<< Field("data", Str(jsonData)),
                 Field("location", Obj([lat |-> position.lat, long |-> position.long])) >>)

GenInit ==
  /\ ScannerInit
  /\ sa = SaInitial
  /\ gen = GenInitial
  /\ chat = ChatInitial
  /\ hav = HavAtRest

GenIdle == UNCHANGED <<scannerVars, sa, chat, hav>>

handleDataChange(text) ==
  /\ text # gen.jsonData
  /\ gen' = [gen EXCEPT !.jsonData = text,
                        !.qrValue = IF gen.qrValue # NULL THEN NULL ELSE @]
  /\ GenIdle

\* onSubmit up to getCurrentPosition: the form submits a text that is not
\* empty, and the button takes no click while isGenerating
genOnSubmit ==
  /\ gen.jsonData # ""
  /\ ~gen.isGenerating
  /\ gen' = IF ~geoSupported
            THEN [gen EXCEPT !.qrValue = NULL, !.loading = TRUE, !.isGenerating = FALSE]
            ELSE [gen EXCEPT !.qrValue = NULL, !.loading = TRUE, !.isGenerating = TRUE,
                             !.request = Some(gen.jsonData)]
  /\ GenIdle

\* the success callback of getCurrentPosition, lines 247-274
GenLocationOk(position) ==
  /\ gen.request # NULL
  /\ gen' = [gen EXCEPT !.request = NULL,
                        !.qrValue = Some(genEncrypted(gen.request[1], position)),
                        !.isGenerating = FALSE, !.loading = FALSE]
  /\ GenIdle

\* the success callback when encryptData throws (no secure random numbers)
GenEncryptFail ==
  /\ gen.request # NULL
  /\ gen' = [gen EXCEPT !.request = NULL, !.isGenerating = FALSE, !.loading = FALSE]
  /\ GenIdle

\* the error callback of getCurrentPosition, lines 275-285
GenLocationFail ==
  /\ gen.request # NULL
  /\ gen' = [gen EXCEPT !.request = NULL, !.isGenerating = FALSE, !.loading = FALSE]
  /\ GenIdle

GenNext ==
  \/ \E text \in GenTexts : handleDataChange(text)
  \/ genOnSubmit
  \/ \E position \in DeviceFixes : GenLocationOk(position)
  \/ GenEncryptFail
  \/ GenLocationFail

GenSpec == GenInit /\ [][GenNext]_vars

\* ------------------------------------------- part_005: useChatSocket
ChatTexts == {"a", "b"}

\* onReceiveMessage: the message takes the place of the first message of
\* its id, or is appended
onReceiveMessage(prevMessages, message) ==
  IF \E i \in 1..Len(prevMessages) : prevMessages[i].id = message.id
  THEN LET existingIndex ==
             CHOOSE i \in 1..Len(prevMessages) :
               /\ prevMessages[i].id = message.id
               /\ \A j \in 1..(i - 1) : prevMessages[j].id # message.id
       IN [prevMessages EXCEPT ![existingIndex] = message]
  ELSE Append(prevMessages, message)

\* the save effect: sessionStorage holds the messages of the room
Saved(c) == [c EXCEPT !.storage[c.room] = c.messages]

ChatInit ==
  /\ ScannerInit
  /\ sa = SaInitial
  /\ gen = GenInitial
  /\ chat = ChatInitial
  /\ hav = HavAtRest

ChatIdle == UNCHANGED <<scannerVars, sa, gen, hav>>

\* Date.now() moves on
Tick ==
  /\ chat.now < MaxTime
  /\ chat' = [chat EXCEPT !.now = @ + 1]
  /\ ChatIdle

\* sendMessage(messageData); the widget sends only while connected
sendMessage(text) ==
  /\ chat.connected
  /\ chat.sends < MaxSends
  /\ chat' =
       IF ~chat.socketConnected THEN chat
       ELSE LET optimisticId == <<"temp", chat.now>>
                seq == chat.sends + 1
            IN Saved([chat EXCEPT
                 !.sends = seq,
                 !.messages = Append(@, Message(optimisticId, text, "sending", seq)),
                 !.timers = Append(@, Timer(chat.sock, "echo", chat.now,
                                            Message(optimisticId, text, "sent", seq)))])
  /\ ChatIdle

\* the oldest timer fires, some time after it was set; the emitter of a
\* socket the cleanup has run for has no listeners left
TimerFires ==
  /\ chat.timers # <<>>
  /\ Head(chat.timers).at < chat.now
  /\ LET t == Head(chat.timers)
         c == [chat EXCEPT !.timers = Tail(@)]
     IN chat' =
          IF t.sock # chat.sock THEN c
          ELSE IF t.kind = "connect" THEN [c EXCEPT !.connected = TRUE]
          ELSE IF t.kind = "disconnect" THEN [c EXCEPT !.connected = FALSE]
          ELSE Saved([c EXCEPT !.messages = onReceiveMessage(@, t.msg)])
  /\ ChatIdle

\* the room changes: the cleanup of the socket effect, the load effect and
\* the socket effect for the new room, which sets the mock history when the
\* messages of the render it belongs to (those of the old room) are empty
RoomChange(r) ==
  /\ r # chat.room
  /\ chat.sock < MaxSockets
  /\ LET closed == mockDisconnect(chat)
         fresh == [closed EXCEPT !.room = r, !.sock = @ + 1, !.socketConnected = FALSE,
                                 !.messages = IF Len(chat.messages) = 0
                                              THEN mockHistory
                                              ELSE chat.storage[r]]
     IN chat' = Saved(mockConnect(fresh))
  /\ ChatIdle

ChatNext ==
  \/ Tick
  \/ \E text \in ChatTexts : sendMessage(text)
  \/ TimerFires
  \/ \E r \in Rooms : RoomChange(r)

ChatSpec == ChatInit /\ [][ChatNext]_vars

\* ------------------------------------------------------------ properties
\* the members name, latitude, longitude and address of target are those of
\* the form data
SameLocation(target, data) ==
  /\ Get(target, "name") = Some(Str(data.name))
  /\ Get(target, "latitude") = Some(Num(data.latitude))
  /\ Get(target, "longitude") = Some(Num(data.longitude))
  /\ Get(target, "address") = Some(Str(data.address))

\* text is no JSON, or JSON without one of the four required members
InvalidShape(text) ==
  LET p == JSONparse(text)
  IN \/ ~p.ok
     \/ p.kind # "obj"
     \/ \E i \in 1..4 : Get(p.fields, RequiredKeys[i]) = NULL

\* text is a JSON object without one of the four required members
LacksMember(text) ==
  LET p == JSONparse(text)
  IN p.ok /\ p.kind = "obj" /\ \E i \in 1..4 : Get(p.fields, RequiredKeys[i]) = NULL

\* the strings of claim C9: garbage, truncated or foreign ciphertext, and
\* ciphertexts of the empty text, of text that is no JSON, of JSON null, a
\* number, an array, objects without a required member and an object whose
\* latitude is a word
BadEnvelopes ==
  JunkEnvelopes \cup WrongKeyEnvelopes
    \cup {encrypt(t) : t \in ForeignTexts \ {HugeLatitude, OutOfRangeLatitude}}

\* C1: every payload the generator form accepts, latitude 0 and longitude 0
\* included, comes through the scanner's decrypt-and-validate step under the
\* same key: neither the decryption-failed nor the missing-data error is
\* raised, and the decoded target carries the payload's name, latitude,
\* longitude and address.
C1_RoundTrip ==
  lastText # NULL =>
    \A data \in FormAccepted :
      lastText[1] = onSubmit(data) =>
        /\ ~(lastResult[1].threw /\ lastResult[1].msg \in {ErrDecryption, ErrMissing})
        /\ ~lastResult[1].threw => SameLocation(lastResult[1].target[1], data)

\* the valid envelopes whose latitude and longitude are both not 0
NonZeroEnvelopes ==
  {onSubmit(d) : d \in {x \in FormAccepted : x.latitude # 0 /\ x.longitude # 0}}

\* C2: on the camera path, when camera and location were both granted in the
\* attempt and the camera decodes a valid envelope, the attempt ends in
\* "result" with no error and with a distance.  (Stated for the valid
\* envelopes of non-zero coordinates, the ones C1 does not already fail for.)
C2_CameraScanVerifies ==
  (path = "camera" /\ attemptLocation # NULL /\ lastText # NULL /\ lastText[1] \in NonZeroEnvelopes)
    => (scannerState = "result" /\ verificationError = NULL /\ distanceToTarget # NULL)

\* C3: on the upload path, once the location request of handleFileScanClick
\* has succeeded the file picker is open, so that the attempt does not stay
\* in "requesting".
C3_PickerOpensAfterLocation ==
  (path = "file" /\ attemptLocation # NULL /\ scannerState = "requesting") => pickerOpen

\* C4: once scannerState is "result" it stays "result" with the same error
\* and distance until handleScanAgain (or the unmount of the component); no
\* pending callback changes it.
C4_ResultUntilScanAgain ==
  [][scannerState = "result" =>
       \/ handleScanAgain
       \/ Unmount
       \/ /\ scannerState' = "result"
          /\ verificationError' = verificationError
          /\ distanceToTarget' = distanceToTarget]_vars

\* C5: the device location a distance is computed from is the one
\* requestLocation delivered in the same attempt.
C5_LocationOfThisAttempt ==
  (lastResult # NULL /\ ~lastResult[1].threw) => lastResult[1].device = attemptLocation

\* C6: the classifier's threshold is 100 metres and not strict: a distance
\* above 100 is shown as TooFar, a distance of at most 100, 100 itself
\* included, as Success.
C6_Threshold ==
  /\ (scannerState = "result" /\ verificationError = NULL /\ distanceToTarget # NULL
        /\ distanceToTarget[1] # NaN) =>
       /\ distanceToTarget[1] > 100 => view = "TooFar"
       /\ distanceToTarget[1] <= 100 => view = "Success"
  /\ view = "TooFar" => distanceToTarget[1] > 100
  /\ view = "Success" => distanceToTarget[1] <= 100

C6_Witness ==
  scannerState = "result" /\ view = "Success" /\ distanceToTarget = Some(100)

\* C7: in "result" exactly one of the three variants applies, Error (error
\* not null), TooFar (distance above 100) or Success (distance at most 100),
\* and the "Invalid state" fallback is not rendered.
C7_ExactlyOneVariant ==
  scannerState = "result" =>
    /\ view # "Invalid"
    /\ Cardinality({v \in {"Error", "TooFar", "Success"} :
          \/ v = "Error" /\ verificationError # NULL
          \/ v = "TooFar" /\ distanceToTarget # NULL /\ JsGreater(distanceToTarget[1], 100)
          \/ v = "Success" /\ distanceToTarget # NULL /\ JsAtMost(distanceToTarget[1], 100)}) = 1

\* C8: an envelope decrypt returns null for yields the decryption-failed
\* error, and an envelope that decrypts to text that is no JSON or lacks a
\* required member yields the one invalid-payload error.
C8_TwoFailureClasses ==
  lastText # NULL =>
    LET decrypted == decrypt(lastText[1])
        r == lastResult[1]
    IN /\ decrypted = NULL => (r.threw /\ r.msg = ErrDecryption)
       /\ (decrypted # NULL /\ InvalidShape(decrypted[1])) => (r.threw /\ r.msg = ErrMissing)

\* C9: whatever bad string is handed to processDecodedText of the mounted
\* component, by the camera or by scanFile, the call ends with scannerState
\* "result" and a verificationError that is not null.
C9_BadStringEndsInError ==
  (mounted /\ lastText # NULL /\ lastText[1] \in BadEnvelopes)
    => (scannerState = "result" /\ verificationError # NULL)

C9_Witness ==
  /\ lastText = Some(encrypt(<<Lit("null")>>))
  /\ scannerState = "result"
  /\ verificationError = Some(ErrNullRead)

\* C10: a decrypted payload without one of name, latitude, longitude and
\* address, scanned by the mounted component, is rejected before a distance is computed: verifyDistance is not
\* called, targetLocation and distanceToTarget are null afterwards and the
\* attempt is in "result" with an error.
C10_RejectedBeforeDistance ==
  (mounted /\ lastText # NULL /\ decrypt(lastText[1]) # NULL
     /\ LacksMember(decrypt(lastText[1])[1]))
    => /\ ~CalledVerify(lastResult[1])
       /\ targetLocation = NULL /\ distanceToTarget = NULL
       /\ scannerState = "result" /\ verificationError # NULL

\* text is a JSON object whose latitude and longitude are both present, one
\* of them not a number or a number outside its range
IllTyped(text) ==
  LET p == JSONparse(text)
      lat == Get(p.fields, "latitude")
      lon == Get(p.fields, "longitude")
      OutOf(v, max) == v[1].k # "num" \/ v[1].n < -max \/ v[1].n > max
  IN /\ p.ok /\ p.kind = "obj"
     /\ lat # NULL /\ lon # NULL
     /\ (OutOf(lat, LAT_MAX) \/ OutOf(lon, LON_MAX))

\* C11: a decrypted payload whose latitude or longitude is present but is
\* not a number, or is a number outside [-90, 90] (latitude) or [-180, 180]
\* (longitude), is rejected before the distance computation: the call throws
\* and verifyDistance is not called.
C11_IllTypedRejected ==
  (lastText # NULL /\ decrypt(lastText[1]) # NULL /\ IllTyped(decrypt(lastText[1])[1]))
    => (lastResult[1].threw /\ ~CalledVerify(lastResult[1]))

\* the GeolocationPositionError of a permission denial
PermissionDenied == [code |-> Some(1), PERMISSION_DENIED |-> Some(1)]

\* C12: when camera access or the location permission is denied while
\* scannerState is "requesting", the step puts the scanner in "result" (not
\* in "scanning") with the error message of that denial, and the camera is
\* not running afterwards.
C12_DenialEndsInResult ==
  [][(scannerState = "requesting" /\
        (GetCamerasDone("denied") \/ CameraLocationFail(PermissionDenied)
           \/ FileLocationFail(PermissionDenied)))
       => /\ scannerState' = "result"
          /\ verificationError' =
               Some(IF camPc = "getCameras" THEN ErrCameraDenied ELSE ErrLocationDenied)
          /\ camera' # "on"]_vars

\* the step is a location request of the mounted component failing because
\* navigator.geolocation does not exist
UnsupportedStep ==
  /\ mounted /\ ~geoSupported
  /\ (GetCamerasDone("ok") \/ handleFileScanClick)

\* the step is a location request of the mounted component failing with the
\* platform's error
LocationFailStep(error) ==
  mounted /\ (CameraLocationFail(error) \/ FileLocationFail(error))

\* C13: permission denied, timeout and unsupported geolocation each give a
\* verificationError of their own, and the permission-denied message is given
\* only when the platform reported a permission denial.
C13_DistinctLocationMessages ==
  [][/\ UnsupportedStep =>
          verificationError' \notin {Some(ErrLocationDenied), Some(ErrLocationGeneric)}
     /\ LocationFailStep(PermissionDenied) => verificationError' = Some(ErrLocationDenied)
     /\ \A error \in PositionErrors \ {PermissionDenied} :
          LocationFailStep(error) => verificationError' # Some(ErrLocationDenied)
    ]_vars

\* C14: whenever scannerState is "idle", "requesting" or "result" and no
\* stop() call is pending, the camera is not running.
C14_CameraReleased ==
  (scannerState \in {"idle", "requesting", "result"} /\ camera # "stopping")
    => camera # "on"

\* C15: once the component is unmounted the camera is eventually stopped
\* and stays stopped, whatever call was in flight at the unmount.
C15_StoppedAfterTeardown == [](~mounted => <>[](camera = "off"))

\* the step is a failure of an attempt of the mounted component: no camera
\* or camera access refused, a location failure, a camera start failure, an
\* image scanFile could not read, or a decoded string processDecodedText
\* throws on
FailureStep ==
  /\ mounted
  /\ \/ GetCamerasDone("none") \/ GetCamerasDone("denied")
     \/ (~geoSupported /\ (GetCamerasDone("ok") \/ handleFileScanClick))
     \/ \E error \in PositionErrors : CameraLocationFail(error) \/ FileLocationFail(error)
     \/ CameraStartFail
     \/ (~(camera = "off" /\ readerMounted) /\ \E fix \in DeviceFixes : CameraLocationOk(fix))
     \/ (isScanning(camera) /\ handleFileSelected)
     \/ ScanFileFail(TRUE) \/ ScanFileFail(FALSE)
     \/ (lastResult' # NULL /\ lastResult'[1].threw)

\* the step issues no request and no start() or scanFile() call
NothingIssued ==
  /\ camPc' \in {camPc, "done"}
  /\ upPc' \in {upPc, "done"}
  /\ filePc' \in {filePc, "done"}
  /\ camera' = "starting" => camera = "starting"

\* C16: every failure of an attempt puts scannerState in "result" with a
\* verificationError that is not null, and the failing step starts nothing
\* again on its own.
C16_FailuresEndInResult ==
  [][FailureStep =>
       (scannerState' = "result" /\ verificationError' # NULL /\ NothingIssued)]_vars

\* a camera start failure has been shown as an error
C16_Witness ==
  scannerState = "result" /\ verificationError = Some(ErrStart) /\ camera = "off"

\* C17: after Cancel has returned the scanner to "idle", and until the user
\* starts the next attempt (or the component is unmounted), scannerState
\* stays "idle" and no error, target or distance is set: no callback of the
\* cancelled attempt changes them.
C17_CancelledStaysIdle ==
  [][(path = "cancelled" /\ scannerState = "idle") =>
       \/ StartCameraScan \/ handleFileScanClick \/ Unmount
       \/ /\ scannerState' = "idle"
          /\ UNCHANGED <<verificationError, targetLocation, distanceToTarget>>]_vars

\* C18: whenever scannerState is "idle", targetLocation, deviceLocation,
\* distanceToTarget and verificationError are all null.
C18_IdleIsClean ==
  scannerState = "idle" =>
    /\ targetLocation = NULL /\ deviceLocation = NULL
    /\ distanceToTarget = NULL /\ verificationError = NULL

\* C19: an attempt is started only in "idle", and when it starts nothing of
\* an earlier attempt is in flight: no permission request, no camera start,
\* no running camera or pending stop(), no file decode.
C19_OneAttemptAtATime ==
  [][(StartCameraScan \/ handleFileScanClick) =>
       /\ scannerState = "idle"
       /\ camPc = "done" /\ upPc = "done" /\ filePc = "done"
       /\ camera = "off"]_vars

\* C20: on the camera path, when getCameras() and the geolocation request
\* are answered, an attempt of the mounted component that is in
\* "requesting" comes to "scanning" or "result".
C20_RequestingEnds ==
  (mounted /\ path = "camera" /\ scannerState = "requesting")
    ~> (scannerState \in {"scanning", "result"} \/ ~mounted)

\* a camera attempt has come from "requesting" to "scanning"
C20_Witness ==
  /\ path = "camera" /\ scannerState = "scanning"
  /\ camPc = "done" /\ attemptLocation # NULL

\* C21: an envelope made by encrypt under a key that is not SECRET_KEY is
\* null to decrypt, so processDecodedText reports the decryption-failed
\* error and sets no target location.
C21_WrongKeyIsNull ==
  (lastText # NULL /\ lastText[1] \in WrongKeyEnvelopes)
    => /\ decrypt(lastText[1]) = NULL
       /\ lastResult[1].threw
       /\ lastResult[1].msg = ErrDecryption

\* C22: the haversine distance from the QR location to the device equals
\* the distance from the device to the QR location (NaN both ways for an
\* infinite coordinate), so the two are classified alike against the
\* 100 metres allowed.
C22_HaversineSymmetric ==
  (hav.distance # NULL /\ hav.swapped # NULL)
    => /\ hav.distance = hav.swapped
       /\ TooFar(hav.distance[1]) <=> TooFar(hav.swapped[1])

C22_Witness ==
  /\ hav.distance # NULL /\ hav.swapped # NULL
  /\ hav.qr[1].lat # INF
  /\ Abs(hav.qr[1].lat) # Abs(hav.device[1].lat)
  /\ hav.qr[1].long # hav.device[1].long
  /\ TooFar(hav.distance[1])

\* the members of the decrypted value d are in the merged data m with their
\* values
KeepsMembers(d, m) ==
  \A k \in 1..Len(d.fields) : Get(m, d.fields[k].key) = Some(d.fields[k].val)

\* C23: in the scan-and-append scanner a scan whose position arrives shows
\* the decrypted JSON with each of its members at its value, and a
\* scanDetails member with scannedAt and the latitude, longitude and accuracy of
\* the device; a scan whose position cannot be obtained shows no scanned
\* data and sets an error.
C23_MergeKeepsPayload ==
  [][/\ \A i \in 1..MaxAppCalls, location \in DeviceFixes :
          SaLocationOk(i, location)
            => /\ sa'.scannedData # NULL
               /\ KeepsMembers(sa.calls[i], sa'.scannedData[1])
               /\ Get(sa'.scannedData[1], "scanDetails") = Some(ScanDetails(location))
     /\ \A i \in 1..MaxAppCalls, msg \in GeoMessages :
          SaLocationFail(i, msg) => (sa'.scannedData = NULL /\ sa'.error # NULL)]_vars

\* C24: scannerState changes only along the orchestrator's transitions:
\* idle to requesting, requesting to scanning, requesting to result,
\* scanning to verifying, scanning to idle by Cancel, scanning to result,
\* verifying to result, and result to idle by Scan Again.  (A step of the
\* model that passes through a state counts as the transitions it is made
\* of: handleFileScanClick without geolocation goes from idle through
\* requesting to result.  The unmount, which ends the state, is no change
\* of it.)
C24_OnlyListedTransitions ==
  [][scannerState' # scannerState =>
       \/ scannerState = "idle" /\ scannerState' = "requesting"
       \/ scannerState = "idle" /\ scannerState' = "result" /\ handleFileScanClick
       \/ scannerState = "requesting" /\ scannerState' \in {"scanning", "result"}
       \/ scannerState = "scanning" /\ scannerState' \in {"verifying", "result"}
       \/ scannerState = "scanning" /\ scannerState' = "idle" /\ path' = "cancelled"
       \/ scannerState = "verifying" /\ scannerState' = "result"
       \/ scannerState = "result" /\ scannerState' = "idle" /\ handleScanAgain
       \/ Unmount]_vars

C26_QrShowsFieldText ==
  gen.qrValue # NULL
    => LET decrypted == decryptData(gen.qrValue[1])
       IN ~decrypted.threw /\ Get(decrypted.fields, "data") = Some(Str(gen.jsonData))

\* the step ends a submission
SubmissionEnds ==
  \/ genOnSubmit /\ ~geoSupported
  \/ \E position \in DeviceFixes : GenLocationOk(position)
  \/ GenEncryptFail
  \/ GenLocationFail

\* C27: every submission of the geo-locked generator ends with isGenerating
\* false and the "Getting Location..." message dismissed: with a QR code,
\* with an encryption error, with a location error and without geolocation.
C27_SubmissionCleansUp ==
  [][SubmissionEnds => (~gen'.isGenerating /\ ~gen'.loading)]_vars

\* the step delivers the echo of a message to the listeners of the hook
EchoArrives ==
  /\ TimerFires
  /\ Head(chat.timers).kind = "echo"
  /\ Head(chat.timers).sock = chat.sock

\* C28: when the echo of a message the user sent arrives, that message is
\* in messages exactly once, with status "sent", and every other message is
\* still there as it was, also when two messages were sent within one
\* millisecond.
C28_EchoSettlesOwnMessage ==
  [][EchoArrives =>
       LET seq == Head(chat.timers).msg.seq
           own == {i \in 1..Len(chat'.messages) : chat'.messages[i].seq = seq}
       IN /\ Cardinality(own) = 1
          /\ \A i \in own : chat'.messages[i].status = "sent"
          /\ \A i \in 1..Len(chat.messages) :
               chat.messages[i].seq # seq
                 => \E j \in 1..Len(chat'.messages) : chat'.messages[j] = chat.messages[i]]_vars

\* C29: whenever the hook reports connected, the socket in socketRef is
\* connected, also after a room change.
C29_ConnectedMeansSocketConnected ==
  chat.connected => chat.socketConnected

C29_Witness ==
  /\ chat.connected /\ chat.socketConnected
  /\ chat.sock > 1
  /\ \E i \in 1..Len(chat.timers) :
       chat.timers[i].kind = "connect" /\ chat.timers[i].sock = chat.sock

====
